---- MODULE Spec2Model ----
(***************************************************************************)
(* The mock OIDC provider of e2e/mock-oidc/server.py as a state machine.   *)
(*                                                                         *)
(* State: the environment the process was started in, the two module-level *)
(* dicts _auth_codes and _refresh_tokens, the uuid4 values generated so    *)
(* far, and the handlers in flight (Flask's development server runs one    *)
(* thread per request).                                                    *)
(* A step of a thread is the code between two accesses of a shared dict:   *)
(* each dict operation is one atomic step under the interpreter lock, and  *)
(* the thread-local work around it is folded into that step.               *)
(*                                                                         *)
(* Strings that the server only compares (code_challenge, code_verifier)   *)
(* are numbers 0..MaxStr with 0 the empty string.  uuid4 values are the    *)
(* numbers 1, 2, 3, ... in the order of generation (never repeated), and 0 *)
(* is the empty string a missing form field defaults to.                   *)
(***************************************************************************)
EXTENDS Integers, Sequences, FiniteSets, Bags, TLC

VARIABLES
    environ,         \* os.environ at startup: variable name -> value
    auth_codes,      \* _auth_codes: code -> PendingAuthorization
    refresh_tokens,  \* _refresh_tokens: refresh token -> RefreshTokenRecord
    uuids,           \* the codes and refresh tokens generated so far
    handlers,        \* the handlers in flight, one per busy thread
    last             \* the exchange the latest step completed, or None

vars == <<environ, auth_codes, refresh_tokens, uuids, handlers, last>>

(***************************************************************************)
(* Bounds of the model.                                                    *)
(***************************************************************************)
NumHandlers == 2   \* threads handling requests at the same time
MaxUuids == 4      \* codes and refresh tokens generated in one run
MaxCodes == 1      \* successful POST /authorize requests in one run
MaxStr == 2        \* code_challenge / code_verifier strings are 0..MaxStr
MaxNow == 1        \* time.time() answers 0..MaxNow

(***************************************************************************)
(* Configuration (server.py lines 24-37), read from the environment when   *)
(* the module is loaded.  The value of MOCK_OIDC_USERS is a sequence of    *)
(* tokens: the characters ",", ":" and " " each a token of their own, and  *)
(* every other token a string without these characters.                    *)
(***************************************************************************)
\* An environment that sets neither variable.
NoEnviron == [name \in {} |-> ""]

\* os.environ.get(name, default)
Getenv(name, default) == IF name \in DOMAIN environ THEN environ[name] ELSE default

RECURSIVE Join(_)
\* The string the tokens spell.
Join(tokens) == IF tokens = <<>> THEN "" ELSE Head(tokens) \o Join(Tail(tokens))

RECURSIVE IndexOf(_, _, _)
\* The first position of sep in tokens from position i on, or 0.
IndexOf(tokens, sep, i) ==
    IF i > Len(tokens) THEN 0
    ELSE IF tokens[i] = sep THEN i
    ELSE IndexOf(tokens, sep, i + 1)

RECURSIVE Split(_, _)
\* str.split(sep)
Split(tokens, sep) ==
    LET i == IndexOf(tokens, sep, 1) IN
    IF i = 0 THEN <<tokens>>
    ELSE <<SubSeq(tokens, 1, i - 1)>> \o Split(SubSeq(tokens, i + 1, Len(tokens)), sep)

RECURSIVE Strip(_)
\* str.strip()
Strip(tokens) ==
    IF tokens # <<>> /\ Head(tokens) = " " THEN Strip(Tail(tokens))
    ELSE IF tokens # <<>> /\ tokens[Len(tokens)] = " "
    THEN Strip(SubSeq(tokens, 1, Len(tokens) - 1))
    ELSE tokens

RECURSIVE ParseUsers(_)
\* Lines 26-31: the loop over the pairs; a later pair replaces an earlier
\* one for the same user, a pair without ":" is skipped.
ParseUsers(pairs) ==
    IF pairs = <<>> THEN [u \in {} |-> ""]
    ELSE LET users == ParseUsers(SubSeq(pairs, 1, Len(pairs) - 1))
             pair == Strip(pairs[Len(pairs)])
             i == IndexOf(pair, ":", 1)
         IN  IF i = 0 THEN users
             ELSE (Join(SubSeq(pair, 1, i - 1)) :> Join(SubSeq(pair, i + 1, Len(pair))))
                      @@ users

ISSUER == Getenv("MOCK_OIDC_ISSUER", "http://mock-oidc:8080")

\* Line 25.
users_raw ==
    Getenv("MOCK_OIDC_USERS",
           <<"testuser", ":", "testpass123", ",", "admin", ":", "adminpass123">>)

USERS == ParseUsers(Split(users_raw, ","))

kid == "mock-oidc-key-1"

JWKS == [keys |-> << [kty |-> "RSA", kid |-> kid, use |-> "sig", alg |-> "RS256"] >>]

TokenLifetime == 3600

(***************************************************************************)
(* Python values.                                                          *)
(***************************************************************************)
None == [none |-> TRUE]

EmptyDict == [k \in {} |-> None]

\* A lookup that answers some record of the dict for a missing key.
DictGet_Any(d, k) ==
    IF k \in DOMAIN d THEN d[k]
    ELSE IF DOMAIN d = {} THEN None
    ELSE d[CHOOSE x \in DOMAIN d : TRUE]

\* d.get(k) / d.get(k, None)
DictGet(d, k) == IF k \in DOMAIN d THEN d[k] ELSE None

\* d[k] = v
DictSet(d, k, v) == [x \in DOMAIN d \cup {k} |-> IF x = k THEN v ELSE d[x]]

\* d without key k: the dict after d.pop(k, None) or del d[k]
DictRemove(d, k) == [x \in DOMAIN d \ {k} |-> d[x]]

\* A delete that tolerates a missing key, as d.pop(k, None) does.
DelRaisesKeyError_Never(d, k) == FALSE

\* del d[k] raises KeyError when k is not a key
DelRaisesKeyError(d, k) == k \notin DOMAIN d

\* The next uuid.uuid4() for a code or a refresh token: a value never
\* generated before.
Uuid4 == Len(uuids) + 1

\* The uuid.uuid4() of an access token (lines 230, 258): a fresh value too,
\* which the server never stores or reads again; it is named after the
\* refresh token generated for the same response.
AccessToken(refresh_token) == [access_token_of |-> refresh_token]

\* hashlib.sha256 + urlsafe_b64encode + rstrip("="): injective, never the
\* empty string, and no string is its own digest.
S256(verifier) == verifier + 1

(***************************************************************************)
(* Responses.  A response is its status, its headers and its body; a JSON  *)
(* body is the record of its fields.                                       *)
(***************************************************************************)
NoHeaders == [h \in {} |-> None]

\* An error answered with the status of a failed login.
JsonError_Unauthorized(body) == [status |-> 401, headers |-> NoHeaders, body |-> body]

\* jsonify({...}), 400
JsonError(body) == [status |-> 400, headers |-> NoHeaders, body |-> body]

\* jsonify({...}) of a token set
JsonOk(body) == [status |-> 200, headers |-> NoHeaders, body |-> body]

\* Response("Invalid credentials", status=401)
InvalidCredentials ==
    [status |-> 401, headers |-> NoHeaders, body |-> [text |-> "Invalid credentials"]]

\* redirect(target)
Redirect(target) ==
    [status |-> 302, headers |-> [Location |-> target], body |-> [text |-> "Redirecting"]]

\* What Flask answers when a view raises: 500 Internal Server Error.
InternalServerError(exception) ==
    [status |-> 500, headers |-> NoHeaders,
     body |-> [text |-> "Internal Server Error", exception |-> exception]]

(***************************************************************************)
(* urllib.parse on the redirect URI.  A URI is its part before the query   *)
(* and its query, a sequence of <<name, value>> pairs.                     *)
(***************************************************************************)
RECURSIVE QsIndex(_, _, _)
\* The position of `name` in the ordered dict qs from position i on, or 0.
QsIndex(qs, name, i) ==
    IF i > Len(qs) THEN 0
    ELSE IF qs[i][1] = name THEN i
    ELSE QsIndex(qs, name, i + 1)

\* qs[name] = values
QsSet(qs, name, values) ==
    LET i == QsIndex(qs, name, 1) IN
    IF i = 0 THEN Append(qs, <<name, values>>)
    ELSE [qs EXCEPT ![i] = <<name, values>>]

RECURSIVE parse_qs(_)
\* parse_qs(query): name -> list of values, in order of first appearance;
\* pairs with a blank value are dropped.
parse_qs(query) ==
    IF query = <<>> THEN <<>>
    ELSE LET rest == parse_qs(SubSeq(query, 1, Len(query) - 1))
             pair == query[Len(query)]
             i == QsIndex(rest, pair[1], 1)
         IN  IF pair[2] = "" THEN rest
             ELSE IF i = 0 THEN Append(rest, <<pair[1], <<pair[2]>> >>)
             ELSE [rest EXCEPT ![i] = <<pair[1], Append(rest[i][2], pair[2])>>]

RECURSIVE urlencode(_)
\* urlencode(qs, doseq=True): one pair per value.
urlencode(qs) ==
    IF qs = <<>> THEN <<>>
    ELSE LET name == qs[1][1]
             values == qs[1][2]
         IN  [i \in 1..Len(values) |-> <<name, values[i]>>] \o urlencode(Tail(qs))

\* A redirect that never appends state.
RedirectTarget_NoState(redirect_uri, code, state) ==
    [base |-> redirect_uri.base,
     query |-> urlencode(QsSet(parse_qs(redirect_uri.query), "code", <<ToString(code)>>))]

\* Lines 177-183: the redirect target.
RedirectTarget(redirect_uri, code, state) ==
    LET qs == parse_qs(redirect_uri.query)
        withCode == QsSet(qs, "code", <<ToString(code)>>)
        withState == IF state # "" THEN QsSet(withCode, "state", <<state>>) ELSE withCode
    IN  [base |-> redirect_uri.base, query |-> urlencode(withState)]

(***************************************************************************)
(* ID tokens (lines 77-93).  A token is its header and its claims; the     *)
(* RS256 signature is made with the one private key and is not modelled.   *)
(* nonce = "" stands for both None and the empty string: `if nonce:`       *)
(* treats them alike.                                                      *)
(***************************************************************************)
\* Claims of a token that expires the moment it is issued.
IdTokenClaims_Expired(username, client_id, now) ==
    [iss |-> ISSUER,
     sub |-> username,
     aud |-> client_id,
     exp |-> now,
     iat |-> now,
     email |-> <<username, "@test.local">>,
     preferred_username |-> username,
     device_id |-> "e2e-device",
     device_type |-> "web",
     device_name |-> "E2E Test Browser"]

\* Lines 78-90.
IdTokenClaims(username, client_id, now) ==
    [iss |-> ISSUER,
     sub |-> username,
     aud |-> client_id,
     exp |-> now + TokenLifetime,
     iat |-> now,
     email |-> <<username, "@test.local">>,
     preferred_username |-> username,
     device_id |-> "e2e-device",
     device_type |-> "web",
     device_name |-> "E2E Test Browser"]

\* A token made with username and client_id in each other's place.
make_id_token_Swapped(username, client_id, nonce, now) ==
    LET claims == IdTokenClaims(client_id, username, now) IN
    [header |-> [alg |-> "RS256", kid |-> kid],
     claims |-> IF nonce # "" THEN claims @@ [nonce |-> nonce] ELSE claims]

\* A token that carries a nonce claim whatever the nonce.
make_id_token_NonceAlways(username, client_id, nonce, now) ==
    [header |-> [alg |-> "RS256", kid |-> kid],
     claims |-> IdTokenClaims(username, client_id, now) @@ [nonce |-> nonce]]

make_id_token(username, client_id, nonce, now) ==
    LET claims == IdTokenClaims(username, client_id, now) IN
    [header |-> [alg |-> "RS256", kid |-> kid],
     claims |-> IF nonce # "" THEN claims @@ [nonce |-> nonce] ELSE claims]

(***************************************************************************)
(* Handlers in flight.  Threads have no identity of their own, so the      *)
(* handlers in flight are a bag of records, each the request's form, the   *)
(* handler's position and its locals.  An idle thread has no record.       *)
(*   live   whether the presented code / refresh token was a key of its    *)
(*          store when the request arrived                                 *)
(*   late   whether the request arrived after the presented code had been  *)
(*          popped / the presented refresh token had been rotated          *)
(*   found  whether the handler's lookup found a record                    *)
(* live, late and found are observations: no handler reads them.           *)
(* `last` is the exchange (request, observations, response) that the       *)
(* latest step completed, and None after a step that sent no response.     *)
(***************************************************************************)
Arrived(pc, form, live, late) ==
    [pc |-> pc, form |-> form, stored |-> None,
     new_refresh_token |-> 0, id_token |-> None,
     live |-> live, late |-> late, found |-> FALSE]

Exchange(route, form, live, late, found, resp) ==
    [route |-> route, form |-> form, live |-> live, late |-> late,
     found |-> found, resp |-> resp]

InFlight == BagToSet(handlers)

\* Handler t moves on as t2.
Continue(t, t2) ==
    /\ handlers' = (handlers (-) SetToBag({t})) (+) SetToBag({t2})
    /\ last' = None

\* Handler t returns resp; found tells whether its lookup found a record.
Return(t, found, resp) ==
    /\ handlers' = handlers (-) SetToBag({t})
    /\ last' = Exchange("token", t.form, t.live, t.late, found, resp)

(***************************************************************************)
(* What became of each code and refresh token (observation only, never     *)
(* read by the handlers): the kind of value, the key that was presented    *)
(* when it was generated, for a code the client_id, username,              *)
(* password, code_challenge, code_challenge_method, nonce and scope        *)
(* submitted to POST /authorize (the form of the login page carries the    *)
(* method, and authorize_submit does not read it),                         *)
(* whether it reached a client in a response, how many lookups found its   *)
(* record, how many 200 responses its grant gave, and the status of the    *)
(* first response its grant gave.                                          *)
(***************************************************************************)
NewUuid(kind, from, form, delivered) ==
    [kind |-> kind, from |-> from,
     client_id |-> IF form = None THEN "" ELSE form.client_id,
     username |-> IF form = None THEN "" ELSE form.username,
     code_challenge |-> IF form = None THEN 0 ELSE form.code_challenge,
     code_challenge_method |-> IF form = None THEN "" ELSE form.code_challenge_method,
     nonce |-> IF form = None THEN "" ELSE form.nonce,
     scope |-> IF form = None THEN "" ELSE form.scope,
     password |-> IF form = None THEN "" ELSE form.password,
     delivered |-> delivered, found |-> 0, ok |-> 0, first |-> 0]

IsUuid(u, id, kind) == id \in 1..Len(u) /\ u[id].kind = kind

\* The values a client can present: those a response delivered to it.
Delivered == {id \in 1..Len(uuids) : uuids[id].delivered}

\* A lookup of `id` in the store of `kind` found a record.
Found(u, id, kind) ==
    IF IsUuid(u, id, kind) THEN [u EXCEPT ![id].found = @ + 1] ELSE u

MarkDelivered(u, id) == [u EXCEPT ![id].delivered = TRUE]

\* A grant of `kind` presenting `id` was answered with `status`.
Answered(u, id, kind, status) ==
    IF IsUuid(u, id, kind)
    THEN [u EXCEPT ![id].ok = IF status = 200 THEN @ + 1 ELSE @,
                   ![id].first = IF @ = 0 THEN status ELSE @]
    ELSE u

CodesIssued == Cardinality({id \in 1..Len(uuids) : uuids[id].kind = "code"})

\* The state once the module is loaded and app.run serves, in an
\* environment of envs.
Started(envs) ==
    /\ environ \in envs
    /\ auth_codes = EmptyDict
    /\ refresh_tokens = EmptyDict
    /\ uuids = <<>>
    /\ handlers = EmptyBag
    /\ last = None

\* The e2e suite sets neither MOCK_OIDC_ISSUER nor MOCK_OIDC_USERS.
Init == Started({NoEnviron})

(***************************************************************************)
(* POST /authorize (lines 153-184).  The handler touches shared state      *)
(* once, at line 168, so it is one step of a thread that was idle.         *)
(***************************************************************************)
\* A check of the username alone.
CredentialsOk_UserOnly(username, password) == username \in DOMAIN USERS

\* A check that the password is some user's password.
CredentialsOk_AnyUsersPassword(username, password) ==
    username \in DOMAIN USERS /\ \E u \in DOMAIN USERS : USERS[u] = password

\* Line 164, negated: the submitted pair is an entry of USERS.
CredentialsOk(username, password) ==
    username \in DOMAIN USERS /\ USERS[username] = password

\* Lines 168-175.
PendingAuthorization(form) ==
    [client_id |-> form.client_id,
     redirect_uri |-> form.redirect_uri,
     code_challenge |-> form.code_challenge,
     nonce |-> form.nonce,
     username |-> form.username,
     scope |-> form.scope]

authorize_submit(threads, codes, form) ==
    /\ BagCardinality(handlers) < threads
    /\ UNCHANGED <<environ, handlers>>
    /\ IF ~CredentialsOk(form.username, form.password)
       THEN /\ last' = Exchange("authorize", form, FALSE, FALSE, FALSE, InvalidCredentials)
            /\ UNCHANGED <<auth_codes, refresh_tokens, uuids>>
       ELSE /\ Len(uuids) < MaxUuids
            /\ CodesIssued < codes
            /\ LET code == Uuid4 IN
               /\ auth_codes' = DictSet(auth_codes, code, PendingAuthorization(form))
               /\ uuids' = Append(uuids, NewUuid("code", 0, form, TRUE))
               /\ last' = Exchange("authorize", form, FALSE, FALSE, FALSE,
                                   Redirect(RedirectTarget(form.redirect_uri, code, form.state)))
            /\ UNCHANGED refresh_tokens

(***************************************************************************)
(* The GET routes (lines 99-150).  None of them reads or writes a store,   *)
(* so each is one step of a thread that was idle.  A request's args are a  *)
(* function from the names of the query parameters it carries to their     *)
(* values.                                                                 *)
(***************************************************************************)
NoArgs == [name \in {} |-> ""]

\* Lines 101-119.
DiscoveryDocument ==
    [issuer |-> ISSUER,
     authorization_endpoint |-> ISSUER \o "/authorize",
     token_endpoint |-> ISSUER \o "/token",
     jwks_uri |-> ISSUER \o "/jwks",
     response_types_supported |-> <<"code">>,
     subject_types_supported |-> <<"public">>,
     id_token_signing_alg_values_supported |-> <<"RS256">>,
     scopes_supported |-> <<"openid", "profile", "email", "offline_access">>,
     token_endpoint_auth_methods_supported |->
         <<"client_secret_post", "client_secret_basic", "none">>,
     grant_types_supported |-> <<"authorization_code", "refresh_token">>,
     code_challenge_methods_supported |-> <<"S256">>]

\* A discovery route that empties the Refresh-Token Store.
discovery_Forgetting(threads) ==
    /\ BagCardinality(handlers) < threads
    /\ last' = Exchange("discovery", NoArgs, FALSE, FALSE, FALSE, JsonOk(DiscoveryDocument))
    /\ refresh_tokens' = EmptyDict
    /\ UNCHANGED <<environ, auth_codes, uuids, handlers>>

\* Lines 99-119.
discovery(threads) ==
    /\ BagCardinality(handlers) < threads
    /\ last' = Exchange("discovery", NoArgs, FALSE, FALSE, FALSE, JsonOk(DiscoveryDocument))
    /\ UNCHANGED <<environ, auth_codes, refresh_tokens, uuids, handlers>>

\* Lines 122-124.
jwks(threads) ==
    /\ BagCardinality(handlers) < threads
    /\ last' = Exchange("jwks", NoArgs, FALSE, FALSE, FALSE, JsonOk(JWKS))
    /\ UNCHANGED <<environ, auth_codes, refresh_tokens, uuids, handlers>>

\* params.get(name, default)
ArgsGet(args, name, default) == IF name \in DOMAIN args THEN args[name] ELSE default

\* The character " in a string of tokens.  The value of a query parameter
\* is a string of tokens: " is a token of its own and every other token is
\* text without it.
Quote == "\""

\* One of lines 136-143: the f-string puts the value between the quotes of
\* the value attribute as it is.
HiddenInput(name, value) ==
    <<"<input type=", Quote, "hidden", Quote, " name=", Quote, name, Quote,
      " value=", Quote>> \o value \o <<Quote, ">">>

\* Lines 130-149: the login page, as its form and the markup of the hidden
\* inputs of the form.
LoginPage(params) ==
    [action |-> "/authorize",
     method |-> "POST",
     inputs |-> <<HiddenInput("client_id", ArgsGet(params, "client_id", <<>>)),
                  HiddenInput("redirect_uri", ArgsGet(params, "redirect_uri", <<>>)),
                  HiddenInput("response_type", ArgsGet(params, "response_type", <<"code">>)),
                  HiddenInput("scope", ArgsGet(params, "scope", <<"openid">>)),
                  HiddenInput("state", ArgsGet(params, "state", <<>>)),
                  HiddenInput("nonce", ArgsGet(params, "nonce", <<>>)),
                  HiddenInput("code_challenge", ArgsGet(params, "code_challenge", <<>>)),
                  HiddenInput("code_challenge_method",
                              ArgsGet(params, "code_challenge_method", <<>>))>>]

\* Response(html, content_type="text/html")
Html(page) ==
    [status |-> 200, headers |-> ("Content-Type" :> "text/html"), body |-> page]

authorize_form(threads, args) ==
    /\ BagCardinality(handlers) < threads
    /\ last' = Exchange("authorize_form", args, FALSE, FALSE, FALSE, Html(LoginPage(args)))
    /\ UNCHANGED <<environ, auth_codes, refresh_tokens, uuids, handlers>>

(***************************************************************************)
(* POST /token (lines 187-196): the request arrives at an idle thread and  *)
(* is dispatched on grant_type ("" stands for a missing grant_type).       *)
(***************************************************************************)
\* A dispatch that takes every grant_type but refresh_token for
\* authorization_code.
Dispatch_CodeByDefault(grant_type) ==
    IF grant_type = "refresh_token" THEN "rt_get" ELSE "ac_pop"

\* Lines 191-196: where a request of this grant_type goes.
Dispatch(grant_type) ==
    IF grant_type = "authorization_code" THEN "ac_pop"
    ELSE IF grant_type = "refresh_token" THEN "rt_get"
    ELSE "unsupported_grant_type"

\* A read that loses the code when the request names another client than
\* "web".
FormGet_ClientBound(form, name) ==
    IF name = "code" /\ form.client_id \notin {"", "web"} THEN 0 ELSE form[name]

\* request.form.get(name, default) at lines 189, 200, 201 and 241: a form
\* carries the default where the request had no such field, and the
\* fields that no handler of /token reads as they were sent.
FormGet(form, name) == form[name]

token(threads, form) ==
    /\ BagCardinality(handlers) < threads
    /\ IF Dispatch(FormGet(form, "grant_type")) = "ac_pop"
       THEN /\ handlers' = handlers (+) SetToBag({Arrived("ac_pop", form,
                   form.code \in DOMAIN auth_codes,
                   IsUuid(uuids, form.code, "code") /\ uuids[form.code].found > 0)})
            /\ last' = None
       ELSE IF Dispatch(FormGet(form, "grant_type")) = "rt_get"
       THEN /\ handlers' = handlers (+) SetToBag({Arrived("rt_get", form,
                   form.refresh_token \in DOMAIN refresh_tokens,
                   IsUuid(uuids, form.refresh_token, "refresh")
                       /\ uuids[form.refresh_token].ok > 0)})
            /\ last' = None
       ELSE /\ last' = Exchange("token", form, FALSE, FALSE, FALSE,
                                JsonError([error |-> "unsupported_grant_type"]))
            /\ UNCHANGED handlers
    /\ UNCHANGED <<environ, auth_codes, refresh_tokens, uuids>>

(***************************************************************************)
(* _handle_authorization_code (lines 199-237), in two steps: the pop of    *)
(* line 203 with the PKCE check that follows it, and the insert of line    *)
(* 222 with the response.                                                  *)
(***************************************************************************)
\* A handler that reads the code with .get and leaves it in the store.
PopAuthCode_Get(codes, code) == codes

\* A pop that empties the store.
PopAuthCode_Clear(codes, code) == EmptyDict

\* Line 203, the store after _auth_codes.pop(code, None).
PopAuthCode(codes, code) == DictRemove(codes, code)

\* The "plain" method: the verifier is compared with the challenge itself.
PkceOk_Plain(stored, code_verifier) ==
    stored.code_challenge # 0 => code_verifier = stored.code_challenge

\* The S256 comparison without the guard of line 208.
PkceOk_Unguarded(stored, code_verifier) ==
    S256(code_verifier) = stored.code_challenge

\* Lines 208-212: the PKCE check passes.
PkceOk(stored, code_verifier) ==
    stored.code_challenge # 0 => S256(code_verifier) = stored.code_challenge

handle_authorization_code_pop ==
    \E t \in InFlight :
        /\ t.pc = "ac_pop"
        /\ LET code == FormGet(t.form, "code")
               code_verifier == FormGet(t.form, "code_verifier")
               stored == DictGet(auth_codes, code)
           IN  /\ auth_codes' = PopAuthCode(auth_codes, code)
               /\ IF stored = None
                  THEN /\ Return(t, FALSE, JsonError(
                              [error |-> "invalid_grant", error_description |-> "Unknown code"]))
                       /\ uuids' = Answered(uuids, code, "code", 400)
                  ELSE IF ~PkceOk(stored, code_verifier)
                  THEN /\ Return(t, TRUE, JsonError(
                              [error |-> "invalid_grant", error_description |-> "PKCE mismatch"]))
                       /\ uuids' = Answered(Found(uuids, code, "code"), code, "code", 400)
                  ELSE /\ Continue(t, [t EXCEPT !.pc = "ac_issue", !.stored = stored,
                                                !.found = TRUE])
                       /\ uuids' = Found(uuids, code, "code")
        /\ UNCHANGED <<environ, refresh_tokens>>

\* A record with client_id and username in each other's place.
RefreshTokenRecord_Swapped(client_id, username, scope) ==
    [client_id |-> username, username |-> client_id, scope |-> scope]

\* Lines 222-226.
RefreshTokenRecord(client_id, username, scope) ==
    [client_id |-> client_id, username |-> username, scope |-> scope]

\* Lines 228-237 and 256-265.
TokenSet(access_token, id_token, refresh_token, scope) ==
    [access_token |-> access_token,
     token_type |-> "Bearer",
     expires_in |-> 3600,
     id_token |-> id_token,
     refresh_token |-> refresh_token,
     scope |-> scope]

handle_authorization_code_issue(times) ==
    \E t \in InFlight, now \in times :
        /\ t.pc = "ac_issue"
        /\ Len(uuids) < MaxUuids
        /\ LET code == t.form.code
               stored == t.stored
               username == stored.username
               client_id == stored.client_id
               nonce == stored.nonce
               scope == stored.scope
               id_token == make_id_token(username, client_id, nonce, now)
               refresh_token == Uuid4
               access_token == AccessToken(refresh_token)
           IN  /\ refresh_tokens' = DictSet(refresh_tokens, refresh_token,
                                            RefreshTokenRecord(client_id, username, scope))
               /\ Return(t, TRUE, JsonOk(TokenSet(access_token, id_token, refresh_token, scope)))
               /\ uuids' = Answered(Append(uuids, NewUuid("refresh", code, None, TRUE)),
                                    code, "code", 200)
        /\ UNCHANGED <<environ, auth_codes>>

(***************************************************************************)
(* _handle_refresh_token (lines 240-265), in three steps: the lookup of    *)
(* line 242, the insert of line 253 and the delete of line 254 with the    *)
(* response.                                                               *)
(***************************************************************************)
\* A rotation that forgets to delete the old record.
DelRefreshToken_Keep(tokens, refresh_token) == tokens

\* A rotation that deletes every record.
DelRefreshToken_Clear(tokens, refresh_token) == EmptyDict

\* Line 254, the store after del _refresh_tokens[refresh_token].
DelRefreshToken(tokens, refresh_token) == DictRemove(tokens, refresh_token)

handle_refresh_token_get(times) ==
    \E t \in InFlight, now \in times :
        /\ t.pc = "rt_get"
        /\ LET refresh_token == FormGet(t.form, "refresh_token")
               stored == DictGet(refresh_tokens, refresh_token)
           IN  IF stored = None
               THEN /\ Return(t, FALSE, JsonError([error |-> "invalid_grant",
                                            error_description |-> "Unknown refresh token"]))
                    /\ uuids' = Answered(uuids, refresh_token, "refresh", 400)
               ELSE /\ Continue(t, [t EXCEPT !.pc = "rt_insert", !.stored = stored,
                           !.found = TRUE,
                           !.id_token = make_id_token(stored.username, stored.client_id, "", now)])
                    /\ uuids' = Found(uuids, refresh_token, "refresh")
        /\ UNCHANGED <<environ, auth_codes, refresh_tokens>>

\* A rotation that falls back to the default scope.
RotatedRecord_DefaultScope(stored) == [stored EXCEPT !.scope = "openid"]

\* Line 253: the new key gets the very record the lookup found.
RotatedRecord(stored) == stored

handle_refresh_token_insert ==
    \E t \in InFlight :
        /\ t.pc = "rt_insert"
        /\ Len(uuids) < MaxUuids
        /\ LET new_refresh_token == Uuid4 IN
           /\ refresh_tokens' = DictSet(refresh_tokens, new_refresh_token,
                                         RotatedRecord(t.stored))
           /\ Continue(t, [t EXCEPT !.pc = "rt_del", !.new_refresh_token = new_refresh_token])
           /\ uuids' = Append(uuids, NewUuid("refresh", t.form.refresh_token, None, FALSE))
        /\ UNCHANGED <<environ, auth_codes>>

handle_refresh_token_del ==
    \E t \in InFlight :
        /\ t.pc = "rt_del"
        /\ LET refresh_token == t.form.refresh_token
               new_refresh_token == t.new_refresh_token
               scope == t.stored.scope
               access_token == AccessToken(new_refresh_token)
           IN  IF DelRaisesKeyError(refresh_tokens, refresh_token)
               THEN /\ Return(t, TRUE, InternalServerError("KeyError"))
                    /\ uuids' = Answered(uuids, refresh_token, "refresh", 500)
                    /\ UNCHANGED refresh_tokens
               ELSE /\ refresh_tokens' = DelRefreshToken(refresh_tokens, refresh_token)
                    /\ Return(t, TRUE, JsonOk(TokenSet(access_token, t.id_token,
                                                 new_refresh_token, scope)))
                    /\ uuids' = Answered(MarkDelivered(uuids, new_refresh_token),
                                         refresh_token, "refresh", 200)
        /\ UNCHANGED <<environ, auth_codes>>

(***************************************************************************)
(* POST /token run from the first line to the last with no other handler   *)
(* in between (lines 187-265): the response, and the two stores as the     *)
(* handler leaves them, for a request with this form that finds these      *)
(* stores, whose uuid4 for the refresh token is id and whose clock reads   *)
(* now.                                                                    *)
(***************************************************************************)
TokenRun(form, codes, tokens, id, now) ==
    IF Dispatch(FormGet(form, "grant_type")) = "ac_pop"
    THEN LET code == FormGet(form, "code")
             code_verifier == FormGet(form, "code_verifier")
             stored == DictGet(codes, code)
             popped == PopAuthCode(codes, code)
         IN  IF stored = None
             THEN [resp |-> JsonError([error |-> "invalid_grant",
                                       error_description |-> "Unknown code"]),
                   auth_codes |-> popped, refresh_tokens |-> tokens]
             ELSE IF ~PkceOk(stored, code_verifier)
             THEN [resp |-> JsonError([error |-> "invalid_grant",
                                       error_description |-> "PKCE mismatch"]),
                   auth_codes |-> popped, refresh_tokens |-> tokens]
             ELSE [resp |-> JsonOk(TokenSet(AccessToken(id),
                               make_id_token(stored.username, stored.client_id,
                                             stored.nonce, now),
                               id, stored.scope)),
                   auth_codes |-> popped,
                   refresh_tokens |-> DictSet(tokens, id,
                       RefreshTokenRecord(stored.client_id, stored.username, stored.scope))]
    ELSE IF Dispatch(FormGet(form, "grant_type")) = "rt_get"
    THEN LET refresh_token == FormGet(form, "refresh_token")
             stored == DictGet(tokens, refresh_token)
             inserted == DictSet(tokens, id, RotatedRecord(stored))
         IN  IF stored = None
             THEN [resp |-> JsonError([error |-> "invalid_grant",
                                       error_description |-> "Unknown refresh token"]),
                   auth_codes |-> codes, refresh_tokens |-> tokens]
             ELSE IF DelRaisesKeyError(inserted, refresh_token)
             THEN [resp |-> InternalServerError("KeyError"),
                   auth_codes |-> codes, refresh_tokens |-> inserted]
             ELSE [resp |-> JsonOk(TokenSet(AccessToken(id),
                               make_id_token(stored.username, stored.client_id, "", now),
                               id, stored.scope)),
                   auth_codes |-> codes,
                   refresh_tokens |-> DelRefreshToken(inserted, refresh_token)]
    ELSE [resp |-> JsonError([error |-> "unsupported_grant_type"]),
          auth_codes |-> codes, refresh_tokens |-> tokens]

(***************************************************************************)
(* Requests.  As a code or a refresh token a client presents the empty     *)
(* string (which stands for every value that was never a key) or a value   *)
(* of that kind some response delivered to it: uuid4 values cannot be      *)
(* guessed.                                                                *)
(***************************************************************************)
Presentable(kind) == {0} \cup {id \in Delivered : uuids[id].kind = kind}

\* What the clients of I present as a value of this kind: where I.mixed, a
\* code also as a refresh token and a refresh token also as a code.
Presented(I, kind) == IF I.mixed THEN {0} \cup Delivered ELSE Presentable(kind)

AuthorizeForms(I) ==
    [username : I.usernames, password : I.passwords, client_id : I.client_ids,
     redirect_uri : I.redirect_uris, state : I.states, nonce : I.nonces,
     code_challenge : I.code_challenges,
     code_challenge_method : I.code_challenge_methods, scope : I.scopes]

TokenForms(I) ==
    [grant_type : {"authorization_code"}, code : Presented(I, "code"),
     code_verifier : I.code_verifiers, refresh_token : {0},
     client_id : I.token_client_ids, redirect_uri : I.token_redirect_uris]
    \cup [grant_type : {"refresh_token"}, code : {0},
          code_verifier : {0}, refresh_token : Presented(I, "refresh"),
          client_id : I.token_client_ids, redirect_uri : I.token_redirect_uris]
    \cup [grant_type : I.other_grant_types, code : Presentable("code"),
          code_verifier : {0}, refresh_token : Presentable("refresh"),
          client_id : I.token_client_ids, redirect_uri : I.token_redirect_uris]

\* POST /authorize with any form of I.
AuthorizeSubmit(I) == \E form \in AuthorizeForms(I) : authorize_submit(I.threads, I.codes, form)

\* POST /token with any form of I.
Token(I) == \E form \in TokenForms(I) : token(I.threads, form)

\* GET /.well-known/openid-configuration
Discovery(I) == discovery(I.threads)

\* GET /jwks
Jwks(I) == jwks(I.threads)

\* GET /authorize with any args of I.
AuthorizeForm(I) == \E args \in I.queries : authorize_form(I.threads, args)

NextIn(I) ==
    \/ AuthorizeSubmit(I)
    \/ Token(I)
    \/ handle_authorization_code_pop
    \/ handle_authorization_code_issue(I.times)
    \/ handle_refresh_token_get(I.times)
    \/ handle_refresh_token_insert
    \/ handle_refresh_token_del

\* Concurrent handlers; the parameters that only travel through are fixed.
ConcurrentInputs ==
    [threads |-> NumHandlers,
     codes |-> MaxCodes,
     usernames |-> {"testuser"},
     passwords |-> {"testpass123"},
     client_ids |-> {"web"},
     redirect_uris |-> {[base |-> "http://app/callback", query |-> <<>>]},
     states |-> {""},
     nonces |-> {""},
     code_challenges |-> {0, MaxStr},
     code_challenge_methods |-> {""},
     scopes |-> {"openid"},
     code_verifiers |-> {MaxStr - 1, MaxStr},
     other_grant_types |-> {},
     queries |-> {},
     times |-> {0},
     mixed |-> FALSE,
     token_client_ids |-> {""},
     token_redirect_uris |-> {""}]

\* The POST routes and the GET routes.
NextWithGets(I) ==
    \/ NextIn(I)
    \/ Discovery(I)
    \/ Jwks(I)
    \/ AuthorizeForm(I)

Next == NextIn(ConcurrentInputs)

Spec == Init /\ [][Next]_vars

\* Every code_challenge against every code_verifier, one handler at a time.
PkceInputs ==
    [ConcurrentInputs EXCEPT
        !.threads = 1,
        !.code_challenges = 0..MaxStr,
        !.code_challenge_methods = {"", "plain", "S256"},
        !.code_verifiers = 0..MaxStr,
        !.other_grant_types = {""}]

NextPkce == NextIn(PkceInputs)

SpecPkce == Init /\ [][NextPkce]_vars

\* The parameters an ID token is made of, one handler at a time.
IdentityInputs ==
    [ConcurrentInputs EXCEPT
        !.threads = 1,
        !.usernames = {"testuser", "admin"},
        !.passwords = {"testpass123", "adminpass123"},
        !.client_ids = {"web", "android"},
        !.nonces = {"", "n-0S6_WzA2Mj"},
        !.scopes = {"openid", "openid offline_access"},
        !.code_challenges = {0},
        !.code_verifiers = {0},
        !.other_grant_types = {},
        !.times = 0..MaxNow]

NextIdentity == NextIn(IdentityInputs)

SpecIdentity == Init /\ [][NextIdentity]_vars

\* The login form: the GET routes, credentials, state and redirect_uri, one
\* handler at a time, with one login more than elsewhere.
AuthorizeInputs ==
    [ConcurrentInputs EXCEPT
        !.threads = 1,
        !.codes = MaxCodes + 1,
        !.usernames = {"testuser", "admin", "Testuser", ""},
        !.passwords = {"testpass123", "adminpass123", ""},
        !.states = {"", "af0ifjsldkj"},
        !.redirect_uris = {[base |-> "http://app/callback", query |-> <<>>],
                           [base |-> "http://app/callback",
                            query |-> <<<<"tab", "1">>, <<"code", "old">>,
                                        <<"state", "old">>, <<"debug", "">>>>]},
        !.code_challenges = {0},
        !.code_verifiers = {0},
        !.other_grant_types = {"password", ""},
        !.queries = {NoArgs,
                     [client_id |-> <<"web">>, redirect_uri |-> <<"http://app/callback">>,
                      response_type |-> <<"token">>, scope |-> <<"openid profile">>,
                      state |-> <<"af0ifjsldkj">>, nonce |-> <<"n-0S6_WzA2Mj">>,
                      code_challenge |-> <<"E9Melhoa2OwvFrEMTJguCHaoeK1t8URWbuGJSstw-cM">>,
                      code_challenge_method |-> <<"S256">>]}]

NextAuthorize == NextWithGets(AuthorizeInputs)

\* POST /token with the fields no handler reads: a client_id and a
\* redirect_uri that are, or are not, those of the authorization; one
\* handler at a time.
TokenInputs ==
    [ConcurrentInputs EXCEPT
        !.threads = 1,
        !.client_ids = {"web", "android"},
        !.code_challenges = {0, MaxStr},
        !.code_verifiers = {MaxStr - 1, MaxStr},
        !.other_grant_types = {"password"},
        !.token_client_ids = {"", "web", "android"},
        !.token_redirect_uris = {"", "http://evil/callback"}]

NextToken == NextIn(TokenInputs)

SpecToken == Init /\ [][NextToken]_vars

\* Exchanges of several pending codes, authorized for different clients
\* with and without a code_challenge: one handler at a time, with one login
\* more than elsewhere.
ExchangeInputs ==
    [ConcurrentInputs EXCEPT
        !.threads = 1,
        !.codes = MaxCodes + 1,
        !.client_ids = {"web", "android"},
        !.code_challenges = {0, MaxStr},
        !.code_verifiers = {MaxStr - 1, MaxStr}]

NextExchange == NextIn(ExchangeInputs)

SpecExchange == Init /\ [][NextExchange]_vars

\* The GET routes among concurrent handlers: queries with every parameter,
\* with none, and with values that hold the character "; clients that
\* present codes and refresh tokens in each other's place too.
GetInputs ==
    [ConcurrentInputs EXCEPT
        !.mixed = TRUE,
        !.code_challenges = {0},
        !.code_verifiers = {0},
        !.queries = {NoArgs,
                     [client_id |-> <<"web">>, redirect_uri |-> <<"http://app/callback">>,
                      response_type |-> <<"code">>, scope |-> <<"openid profile">>,
                      state |-> <<"af0ifjsldkj">>, nonce |-> <<"n-0S6_WzA2Mj">>,
                      code_challenge |-> <<"E9Melhoa2OwvFrEMTJguCHaoeK1t8URWbuGJSstw-cM">>,
                      code_challenge_method |-> <<"S256">>],
                     [client_id |-> <<"web">>, state |-> <<"a", Quote, "b">>]}]

NextGet == NextWithGets(GetInputs)

SpecGet == Init /\ [][NextGet]_vars

SpecAuthorize == Init /\ [][NextAuthorize]_vars

\* The environments a process is started in: each variable set or not, the
\* user directory also empty, without a pair, and with pairs to strip and
\* to replace.
StartupEnvirons ==
    {issuer @@ users :
        issuer \in {NoEnviron, [MOCK_OIDC_ISSUER |-> "http://localhost:8080"]},
        users \in {NoEnviron} \cup
            {[MOCK_OIDC_USERS |-> raw] : raw \in
                {<<>>,
                 <<"alice">>,
                 <<"alice", ":", "s3cret">>,
                 <<" ", "alice", ":", "old", ",", "alice", ":", "s3cret", ":", "x", " ">>}}}

\* Logins against the directory of each environment, one handler at a time.
StartupInputs ==
    [ConcurrentInputs EXCEPT
        !.threads = 1,
        !.usernames = {"testuser", "alice"},
        !.passwords = {"testpass123", "s3cret", "s3cret:x"},
        !.code_challenges = {0},
        !.code_verifiers = {0}]

InitStartup == Started(StartupEnvirons)

NextStartup == NextIn(StartupInputs)

SpecStartup == InitStartup /\ [][NextStartup]_vars

(***************************************************************************)
(* Properties.                                                             *)
(***************************************************************************)
\* The latest step completed a POST /token of this grant type.
LastGrant(grant_type) ==
    last # None /\ last.route = "token" /\ last.form.grant_type = grant_type

\* The key the latest /token exchange presented.
LastKey ==
    IF last.form.grant_type = "authorization_code"
    THEN last.form.code ELSE last.form.refresh_token

IsInvalidGrant(resp) ==
    /\ resp.status = 400
    /\ "error" \in DOMAIN resp.body
    /\ resp.body.error = "invalid_grant"

Codes == {id \in 1..Len(uuids) : uuids[id].kind = "code"}

RefreshTokens == {id \in 1..Len(uuids) : uuids[id].kind = "refresh"}

\* No handler in flight presents this code / this refresh token.
NoneInFlight(grant_type, key) ==
    \A t \in InFlight :
        ~(t.form.grant_type = grant_type
          /\ (IF grant_type = "authorization_code"
              THEN t.form.code ELSE t.form.refresh_token) = key)

\* C1: a code is exchanged successfully at most once, and every
\* authorization_code exchange that arrives after the code was popped is
\* answered 400 invalid_grant.
C1_CodeExchangedAtMostOnce ==
    /\ \A c \in Codes : uuids[c].ok <= 1
    /\ (LastGrant("authorization_code") /\ last.late) => IsInvalidGrant(last.resp)

\* A second exchange of a code that was exchanged successfully was refused.
C1_Witness ==
    /\ LastGrant("authorization_code")
    /\ last.late
    /\ last.form.code \in Codes
    /\ uuids[last.form.code].ok = 1
    /\ IsInvalidGrant(last.resp)

\* The latest step answered an authorization_code exchange whose code was
\* pending when the request arrived and gone when the handler popped: the
\* handler ran concurrently with another exchange of the same code.
C2_LostRace ==
    /\ LastGrant("authorization_code")
    /\ last.live
    /\ ~last.found

C3_RefreshNeverBothSucceed ==
    \A r \in RefreshTokens : uuids[r].ok <= 1

\* Two handlers both found the record of one refresh token; one succeeded
\* and the other has now been answered.
C3_Witness ==
    /\ LastGrant("refresh_token")
    /\ last.found
    /\ last.resp.status # 200
    /\ uuids[last.form.refresh_token].found = 2
    /\ uuids[last.form.refresh_token].ok = 1

\* C4: a refresh handler whose token was in the store when its request
\* arrived and that does not succeed is answered 400 invalid_grant.
C4_LoserGetsInvalidGrant ==
    (LastGrant("refresh_token") /\ last.live /\ last.resp.status # 200)
        => IsInvalidGrant(last.resp)

\* C5: rotation.  A refresh_token grant that arrives after its token was
\* used successfully is answered invalid_grant; the first grant answered
\* for a delivered refresh token (so for the new token R') succeeds; and no
\* token succeeds twice.
C5_RefreshRotation ==
    /\ (LastGrant("refresh_token") /\ last.late) => IsInvalidGrant(last.resp)
    /\ \A r \in RefreshTokens :
          /\ uuids[r].first \in {0, 200}
          /\ uuids[r].ok <= 1
          /\ uuids[r].ok = 1 => r \notin DOMAIN refresh_tokens

\* R was rotated into R', R' was used successfully once, and a further
\* grant with R' was refused.
C5_Witness ==
    /\ LastGrant("refresh_token")
    /\ last.late
    /\ IsInvalidGrant(last.resp)
    /\ LET r2 == last.form.refresh_token IN
       /\ r2 \in RefreshTokens
       /\ uuids[r2].from \in RefreshTokens
       /\ uuids[uuids[r2].from].ok = 1
       /\ uuids[r2].ok = 1

\* The code_challenge submitted with the code the latest exchange presented.
LastChallenge == uuids[last.form.code].code_challenge

\* C6: an authorization_code exchange of a code whose PendingAuthorization
\* holds a non-empty code_challenge, with a code_verifier whose S256 digest
\* differs from it, is answered invalid_grant, its response carries no
\* token, and no refresh token comes of the code.
C6_PkceMismatchRefused ==
    (/\ LastGrant("authorization_code")
     /\ last.form.code \in Codes
     /\ LastChallenge # 0
     /\ S256(last.form.code_verifier) # LastChallenge)
        => /\ IsInvalidGrant(last.resp)
           /\ DOMAIN last.resp.body \cap {"id_token", "access_token", "refresh_token"} = {}
           /\ last.found => \A r \in RefreshTokens : uuids[r].from # last.form.code

\* A pending code with a code_challenge was presented with the challenge
\* itself as the verifier, and refused.
C6_Witness ==
    /\ LastGrant("authorization_code")
    /\ last.found
    /\ LastChallenge # 0
    /\ last.form.code_verifier = LastChallenge
    /\ IsInvalidGrant(last.resp)
    /\ last.resp.body.error_description = "PKCE mismatch"

\* C7: the first exchange of a code whose PendingAuthorization holds an
\* empty code_challenge succeeds, whatever the code_verifier.
C7_NoChallengeAnyVerifier ==
    /\ \A c \in Codes : uuids[c].code_challenge = 0 => uuids[c].first \in {0, 200}
    /\ (LastGrant("authorization_code") /\ last.found /\ LastChallenge = 0)
          => last.resp.status = 200

\* A code without code_challenge was exchanged with a non-empty verifier.
C7_Witness ==
    /\ LastGrant("authorization_code")
    /\ last.found
    /\ LastChallenge = 0
    /\ last.form.code_verifier # 0
    /\ last.resp.status = 200

\* A code without code_challenge was exchanged with the empty verifier.
C7_WitnessEmptyVerifier ==
    /\ LastGrant("authorization_code")
    /\ last.found
    /\ LastChallenge = 0
    /\ last.form.code_verifier = 0
    /\ last.resp.status = 200

RECURSIVE Origin(_)
\* The code a code or refresh token descends from.
Origin(id) == IF uuids[id].kind = "code" THEN id ELSE Origin(uuids[id].from)

\* C8: the ID token of every successful token response has aud equal to the
\* client_id and sub equal to the username of the POST /authorize its chain
\* started from, and its header kid is the kid of the one key of the JWKS.
C8_IdTokenBoundToAuthorize ==
    (last # None /\ last.route = "token" /\ last.resp.status = 200)
        => LET origin == uuids[Origin(LastKey)]
               id_token == last.resp.body.id_token
           IN  /\ id_token.claims.aud = origin.client_id
               /\ id_token.claims.sub = origin.username
               /\ Len(JWKS.keys) = 1
               /\ id_token.header.kid = JWKS.keys[1].kid

\* The second refresh of a chain minted a token for admin on android.
C8_Witness ==
    /\ LastGrant("refresh_token")
    /\ last.resp.status = 200
    /\ uuids[LastKey].from \in RefreshTokens
    /\ last.resp.body.id_token.claims.sub = "admin"
    /\ last.resp.body.id_token.claims.aud = "android"

\* The submitted pair is an entry of the User Directory.
CredentialsMatch(form) ==
    \E u \in DOMAIN USERS : u = form.username /\ USERS[u] = form.password

\* The exchange ended in CODE_ISSUED: a redirect that carries the code just
\* generated, which is pending.
CodeIssued(x) ==
    /\ x.resp.status = 302
    /\ "Location" \in DOMAIN x.resp.headers
    /\ Len(uuids) > 0
    /\ uuids[Len(uuids)].kind = "code"
    /\ Len(uuids) \in DOMAIN auth_codes
    /\ \E i \in DOMAIN x.resp.headers.Location.query :
          x.resp.headers.Location.query[i] = <<"code", ToString(Len(uuids))>>

\* The exchange ended in REJECTED.
Rejected(x) ==
    /\ x.resp.status = 401
    /\ "Location" \notin DOMAIN x.resp.headers

\* C9: POST /authorize ends in CODE_ISSUED if and only if the submitted
\* username is a key of USERS and the password is its password, and in
\* REJECTED otherwise; never in both.
C9_CodeIffCredentials ==
    (last # None /\ last.route = "authorize")
        => /\ CredentialsMatch(last.form) <=> CodeIssued(last)
           /\ ~CredentialsMatch(last.form) <=> Rejected(last)

\* A login of admin was answered with a code.
C9_Witness ==
    /\ last # None
    /\ last.route = "authorize"
    /\ last.form.username = "admin"
    /\ CodeIssued(last)

\* C10: a POST /authorize whose credentials do not match is answered 401
\* without Location header and changes neither store.
C10_RejectLeavesStores ==
    [][(last' # None /\ last'.route = "authorize" /\ ~CredentialsMatch(last'.form))
          => /\ last'.resp.status = 401
             /\ "Location" \notin DOMAIN last'.resp.headers
             /\ auth_codes' = auth_codes
             /\ refresh_tokens' = refresh_tokens]_vars

\* A user's name with another user's password was refused while a code
\* was pending.
C10_Witness ==
    /\ last # None
    /\ last.route = "authorize"
    /\ last.form.username = "testuser"
    /\ last.form.password = "adminpass123"
    /\ last.resp.status = 401
    /\ DOMAIN auth_codes # {}

\* The values of the query parameter `name`, in order.
QueryValues(query, name) ==
    LET pairs == SelectSeq(query, LAMBDA pair : pair[1] = name)
    IN  [i \in 1..Len(pairs) |-> pairs[i][2]]

\* The step completed a POST /authorize with matching credentials.
AuthorizeMatched == last' # None /\ last'.route = "authorize" /\ CredentialsMatch(last'.form)

\* The step added exactly one PendingAuthorization, under a code that was
\* never generated before and is no key of either store, holding the six
\* values of the request, and answered with a redirect to redirect_uri that
\* carries that code.
AuthorizeStoredAndRedirected ==
    \E code \in DOMAIN auth_codes' :
        /\ code \notin 1..Len(uuids)
        /\ code \notin DOMAIN auth_codes \cup DOMAIN refresh_tokens
        /\ DOMAIN auth_codes' = DOMAIN auth_codes \cup {code}
        /\ \A c \in DOMAIN auth_codes : auth_codes'[c] = auth_codes[c]
        /\ refresh_tokens' = refresh_tokens
        /\ auth_codes'[code] = [client_id |-> last'.form.client_id,
                                redirect_uri |-> last'.form.redirect_uri,
                                code_challenge |-> last'.form.code_challenge,
                                nonce |-> last'.form.nonce,
                                scope |-> last'.form.scope,
                                username |-> last'.form.username]
        /\ last'.resp.status = 302
        /\ last'.resp.headers.Location.base = last'.form.redirect_uri.base
        /\ QueryValues(last'.resp.headers.Location.query, "code") = <<ToString(code)>>

\* C11 as stated: a matching POST /authorize stores one PendingAuthorization
\* under a fresh code and redirects with that code, and the redirect's query
\* has a state parameter exactly when a non-empty state was submitted.
C11_StateExactlyWhenSubmitted ==
    [][AuthorizeMatched =>
          /\ AuthorizeStoredAndRedirected
          /\ QueryValues(last'.resp.headers.Location.query, "state") # <<>>
                <=> last'.form.state # ""]_vars

\* C11: a matching POST /authorize stores one PendingAuthorization under a
\* fresh code and redirects with that code; the redirect's query has the
\* submitted state as its only state parameter when a non-empty state was
\* submitted, and otherwise the non-blank state parameters redirect_uri
\* came with.
C11_AuthorizeStoresAndRedirects ==
    [][AuthorizeMatched =>
          /\ AuthorizeStoredAndRedirected
          /\ QueryValues(last'.resp.headers.Location.query, "state") =
                IF last'.form.state # "" THEN <<last'.form.state>>
                ELSE SelectSeq(QueryValues(last'.form.redirect_uri.query, "state"),
                               LAMBDA value : value # "")]_vars

\* A second login was answered with a redirect that carries the submitted
\* state, to a redirect_uri that came with a query of its own.
C11_Witness ==
    /\ last # None
    /\ last.route = "authorize"
    /\ last.resp.status = 302
    /\ Cardinality(DOMAIN auth_codes) = 2
    /\ last.form.redirect_uri.query # <<>>
    /\ QueryValues(last.resp.headers.Location.query, "state") = <<"af0ifjsldkj">>

\* C12: the ID token of a successful authorization_code grant has a nonce
\* claim exactly when the POST /authorize that issued the code submitted a
\* non-empty nonce, and then the claim is that nonce; the ID token of a
\* successful refresh_token grant has no nonce claim.
C12_NonceOnlyFromCodeExchange ==
    /\ (LastGrant("authorization_code") /\ last.resp.status = 200)
          => LET nonce == uuids[last.form.code].nonce
                 claims == last.resp.body.id_token.claims
             IN  /\ "nonce" \in DOMAIN claims <=> nonce # ""
                 /\ nonce # "" => claims.nonce = nonce
    /\ (LastGrant("refresh_token") /\ last.resp.status = 200)
          => "nonce" \notin DOMAIN last.resp.body.id_token.claims

\* A refresh in a chain whose authorization had a nonce succeeded.
C12_Witness ==
    /\ LastGrant("refresh_token")
    /\ last.resp.status = 200
    /\ uuids[Origin(LastKey)].nonce = "n-0S6_WzA2Mj"
    /\ "nonce" \notin DOMAIN last.resp.body.id_token.claims

\* A code exchange minted a token with the nonce of its authorization.
C12_WitnessCodeExchange ==
    /\ LastGrant("authorization_code")
    /\ last.resp.status = 200
    /\ "nonce" \in DOMAIN last.resp.body.id_token.claims
    /\ last.resp.body.id_token.claims.nonce = "n-0S6_WzA2Mj"

\* The latest step completed a POST /token with an error response.
LastTokenError == last # None /\ last.route = "token" /\ last.resp.status # 200

\* C13 as stated: every error response of POST /token has status 400 and a
\* body with an error field and an error_description field.
C13_AllErrorsDescribed ==
    LastTokenError
        => /\ last.resp.status = 400
           /\ {"error", "error_description"} \subseteq DOMAIN last.resp.body

\* C13: every error response of POST /token has status 400 and a body with
\* an error field; the body has an error_description field when the error
\* is invalid_grant, and only the error field when it is
\* unsupported_grant_type.
C13_ErrorBodies ==
    LastTokenError
        => /\ last.resp.status = 400
           /\ "error" \in DOMAIN last.resp.body
           /\ last.resp.body.error \in {"invalid_grant", "unsupported_grant_type"}
           /\ last.resp.body.error = "invalid_grant"
                 => DOMAIN last.resp.body = {"error", "error_description"}
           /\ last.resp.body.error = "unsupported_grant_type"
                 => DOMAIN last.resp.body = {"error"}

\* A request without grant_type was answered unsupported_grant_type.
C13_Witness ==
    /\ LastTokenError
    /\ last.form.grant_type = ""
    /\ last.resp.body.error = "unsupported_grant_type"

\* Each of the three invalid_grant errors was answered.
C13_WitnessUnknownCode ==
    LastTokenError /\ last.resp.body = [error |-> "invalid_grant", error_description |-> "Unknown code"]

C13_WitnessPkceMismatch ==
    LastTokenError /\ last.resp.body = [error |-> "invalid_grant", error_description |-> "PKCE mismatch"]

C13_WitnessUnknownRefreshToken ==
    LastTokenError /\ last.resp.body = [error |-> "invalid_grant", error_description |-> "Unknown refresh token"]

\* C14: a POST /token whose grant_type is neither authorization_code nor
\* refresh_token (missing included) is answered 400 unsupported_grant_type
\* and changes neither store, whatever code or refresh_token it carries.
C14_UnsupportedGrantType ==
    [][(/\ last' # None
        /\ last'.route = "token"
        /\ last'.form.grant_type \notin {"authorization_code", "refresh_token"})
          => /\ last'.resp.status = 400
             /\ "error" \in DOMAIN last'.resp.body
             /\ last'.resp.body.error = "unsupported_grant_type"
             /\ auth_codes' = auth_codes
             /\ refresh_tokens' = refresh_tokens]_vars

\* A request without grant_type that carried a pending code and a stored
\* refresh token was refused.
C14_Witness ==
    /\ last # None
    /\ last.route = "token"
    /\ last.form.grant_type = ""
    /\ last.form.code \in DOMAIN auth_codes
    /\ last.form.refresh_token \in DOMAIN refresh_tokens
    /\ last.resp.status = 400
    /\ last.resp.body.error = "unsupported_grant_type"

\* The step completed a POST /token of this grant type whose key was not in
\* its store when the request arrived, or when the handler looked it up.
AnsweredAbsent(grant_type) ==
    /\ last' # None
    /\ last'.route = "token"
    /\ last'.form.grant_type = grant_type
    /\ ~last'.live \/ ~last'.found

\* C15: a refresh_token grant whose value is not a key of the Refresh-Token
\* Store is answered invalid_grant and changes neither store.
C15_UnknownRefreshToken ==
    [][AnsweredAbsent("refresh_token")
          => /\ IsInvalidGrant(last'.resp)
             /\ auth_codes' = auth_codes
             /\ refresh_tokens' = refresh_tokens]_vars

\* A rotated refresh token was refused while the store held its successor.
C15_Witness ==
    /\ LastGrant("refresh_token")
    /\ ~last.live
    /\ last.late
    /\ IsInvalidGrant(last.resp)
    /\ refresh_tokens # EmptyDict

\* The empty refresh token was refused while the store held a record.
C15_WitnessEmpty ==
    /\ LastGrant("refresh_token")
    /\ last.form.refresh_token = 0
    /\ IsInvalidGrant(last.resp)
    /\ refresh_tokens # EmptyDict

\* C16: an authorization_code grant whose code is not a key of the
\* Pending-Authorization Store is answered invalid_grant and changes neither
\* store.
C16_UnknownCode ==
    [][AnsweredAbsent("authorization_code")
          => /\ IsInvalidGrant(last'.resp)
             /\ auth_codes' = auth_codes
             /\ refresh_tokens' = refresh_tokens]_vars

\* The empty code was refused while a code was pending.
C16_Witness ==
    /\ LastGrant("authorization_code")
    /\ last.form.code = 0
    /\ IsInvalidGrant(last.resp)
    /\ auth_codes # EmptyDict

\* A consumed code was refused while the store held a refresh token.
C16_WitnessConsumed ==
    /\ LastGrant("authorization_code")
    /\ last.late
    /\ IsInvalidGrant(last.resp)
    /\ refresh_tokens # EmptyDict

\* The process was started without MOCK_OIDC_ISSUER or without
\* MOCK_OIDC_USERS.
ConfigurationMissing ==
    "MOCK_OIDC_ISSUER" \notin DOMAIN environ \/ "MOCK_OIDC_USERS" \notin DOMAIN environ

\* C17: a process started with the issuer or the user directory missing
\* from its configuration serves no request: it answers none and has no
\* handler in flight.
C17_MissingConfigurationIsFatal ==
    ConfigurationMissing => (last = None /\ handlers = EmptyBag /\ uuids = <<>>)

\* C18: the Refresh-Token Store never holds both a presented refresh token
\* and the new value a handler generated for it.
C18_AtomicReplace ==
    \A r \in RefreshTokens :
        ~(/\ r \in DOMAIN refresh_tokens
          /\ uuids[r].from \in RefreshTokens
          /\ uuids[r].from \in DOMAIN refresh_tokens)

\* The code was found by an exchange and no exchange of it succeeded or is
\* still in flight: its exchange failed the PKCE check.
FailedPkce(c) ==
    /\ uuids[c].found >= 1
    /\ uuids[c].ok = 0
    /\ NoneInFlight("authorization_code", c)

\* C19: a code whose exchange failed the PKCE check is gone from the
\* Pending-Authorization Store and no RefreshTokenRecord came of it, and a
\* later exchange of it with the right code_verifier is answered
\* invalid_grant.
C19_PkceFailureConsumesCode ==
    /\ \A c \in Codes :
          FailedPkce(c) => /\ c \notin DOMAIN auth_codes
                           /\ \A r \in RefreshTokens : uuids[r].from # c
    /\ (/\ LastGrant("authorization_code")
        /\ last.late
        /\ FailedPkce(last.form.code)
        /\ S256(last.form.code_verifier) = LastChallenge)
          => IsInvalidGrant(last.resp)

\* After a PKCE failure the code was presented with the right verifier and
\* refused.
C19_Witness ==
    /\ LastGrant("authorization_code")
    /\ last.late
    /\ last.form.code \in Codes
    /\ FailedPkce(last.form.code)
    /\ LastChallenge # 0
    /\ S256(last.form.code_verifier) = LastChallenge
    /\ IsInvalidGrant(last.resp)
    /\ refresh_tokens = EmptyDict

\* The step is the pop of an authorization_code handler that presents c.
PopsCode(c) ==
    \E t \in InFlight :
        /\ t.pc = "ac_pop"
        /\ t.form.code = c
        /\ CopiesIn(t, handlers') < CopiesIn(t, handlers)

\* No exchange has found the code yet.
Unexchanged(c) == uuids[c].found = 0

\* C20: a PendingAuthorization appears only in a step that completes a
\* successful POST /authorize, and disappears or changes only in the pop of
\* an authorization_code handler that presents its code; so a code that no
\* exchange has found is in the store, with the values it was issued with.
C20_PendingAuthorizationFrame ==
    /\ [][/\ \A c \in DOMAIN auth_codes' \ DOMAIN auth_codes :
                /\ last' # None
                /\ last'.route = "authorize"
                /\ last'.resp.status = 302
                /\ CredentialsMatch(last'.form)
          /\ \A c \in DOMAIN auth_codes :
                \/ c \in DOMAIN auth_codes' /\ auth_codes'[c] = auth_codes[c]
                \/ PopsCode(c)]_vars
    /\ [](\A c \in Codes :
             Unexchanged(c)
                => /\ c \in DOMAIN auth_codes
                   /\ auth_codes[c].client_id = uuids[c].client_id
                   /\ auth_codes[c].username = uuids[c].username
                   /\ auth_codes[c].code_challenge = uuids[c].code_challenge
                   /\ auth_codes[c].nonce = uuids[c].nonce)

\* A code is still pending, unexchanged, after another code was exchanged,
\* the token of that exchange was refreshed, and a request without
\* grant_type that carried the pending code was refused.
C20_Witness ==
    /\ \E c \in Codes : Unexchanged(c) /\ c \in DOMAIN auth_codes
    /\ \E c \in Codes : uuids[c].ok = 1
    /\ \E r \in RefreshTokens : uuids[r].ok = 1
    /\ last # None
    /\ last.route = "token"
    /\ last.form.grant_type = ""
    /\ last.form.code \in DOMAIN auth_codes

\* The step completed a successful authorization_code exchange.
CodeExchanged ==
    /\ last' # None
    /\ last'.route = "token"
    /\ last'.form.grant_type = "authorization_code"
    /\ last'.resp.status = 200

\* C21: a successful authorization_code exchange adds exactly one
\* RefreshTokenRecord, under the refresh_token of its response and with the
\* client_id, username and scope submitted with the code's authorization,
\* and its response has token_type Bearer, expires_in 3600 and that scope.
C21_CodeExchangeRecord ==
    [][CodeExchanged =>
          LET body == last'.resp.body
              issued == uuids[last'.form.code]
          IN  /\ body.refresh_token \notin DOMAIN refresh_tokens
              /\ DOMAIN refresh_tokens' = DOMAIN refresh_tokens \cup {body.refresh_token}
              /\ \A r \in DOMAIN refresh_tokens : refresh_tokens'[r] = refresh_tokens[r]
              /\ refresh_tokens'[body.refresh_token] =
                    [client_id |-> issued.client_id, username |-> issued.username,
                     scope |-> issued.scope]
              /\ body.token_type = "Bearer"
              /\ body.expires_in = 3600
              /\ body.scope = issued.scope]_vars

\* admin's code for android with scope "openid offline_access" was
\* exchanged.
C21_Witness ==
    /\ LastGrant("authorization_code")
    /\ last.resp.status = 200
    /\ last.resp.body.scope = "openid offline_access"
    /\ last.resp.body.refresh_token \in DOMAIN refresh_tokens
    /\ refresh_tokens[last.resp.body.refresh_token] =
          [client_id |-> "android", username |-> "admin", scope |-> "openid offline_access"]

\* The step answered a GET request on this route.
GetAnswered(route) == last' # None /\ last'.route = route

\* C22: the three GET routes leave both stores as they are, and the
\* discovery and JWKS routes answer the same document on every call,
\* whatever the stores hold and whatever handlers are in flight.
C22_GetRoutesStateless ==
    [][/\ GetAnswered("discovery") \/ GetAnswered("jwks") \/ GetAnswered("authorize_form")
          => auth_codes' = auth_codes /\ refresh_tokens' = refresh_tokens
       /\ GetAnswered("discovery") =>
             /\ last'.resp.status = 200
             /\ last'.resp.body =
                  [issuer |-> "http://mock-oidc:8080",
                   authorization_endpoint |-> "http://mock-oidc:8080/authorize",
                   token_endpoint |-> "http://mock-oidc:8080/token",
                   jwks_uri |-> "http://mock-oidc:8080/jwks",
                   response_types_supported |-> <<"code">>,
                   subject_types_supported |-> <<"public">>,
                   id_token_signing_alg_values_supported |-> <<"RS256">>,
                   scopes_supported |-> <<"openid", "profile", "email", "offline_access">>,
                   token_endpoint_auth_methods_supported |->
                       <<"client_secret_post", "client_secret_basic", "none">>,
                   grant_types_supported |-> <<"authorization_code", "refresh_token">>,
                   code_challenge_methods_supported |-> <<"S256">>]
       /\ GetAnswered("jwks") =>
             /\ last'.resp.status = 200
             /\ last'.resp.body =
                  [keys |-> <<[kty |-> "RSA", kid |-> "mock-oidc-key-1",
                               use |-> "sig", alg |-> "RS256"]>>]]_vars

\* The discovery document was served while a refresh token was stored and
\* another handler was in flight.
C22_Witness ==
    /\ last # None
    /\ last.route = "discovery"
    /\ refresh_tokens # EmptyDict
    /\ handlers # EmptyBag

\* The value an HTML parser reads for this attribute of a tag: the text
\* between the quote that follows the attribute's name and the next quote.
AttributeValue(markup, attr) ==
    LET open == IndexOf(markup, attr, 1) + 1
        close == IndexOf(markup, Quote, open + 1)
    IN  SubSeq(markup, open + 1, close - 1)

\* The value of the hidden field of this name in the login page.
HiddenField(page, name) ==
    LET k == CHOOSE k \in 1..Len(page.inputs) :
                 AttributeValue(page.inputs[k], " name=") = <<name>>
    IN  AttributeValue(page.inputs[k], " value=")

\* C23: the value of each hidden field of the login page equals the value
\* of the query parameter of the same name that was sent.
C23_HiddenFieldsEchoQuery ==
    last # None /\ last.route = "authorize_form" =>
        \A name \in DOMAIN last.form :
            HiddenField(last.resp.body, name) = last.form[name]

\* C24: every handler that ends, under every interleaving and every input,
\* ends with one protocol response (200, 302, 400 or 401), never with an
\* unhandled internal error.
C24_ProtocolResponsesOnly ==
    last # None => last.resp.status \in {200, 302, 400, 401}

\* C25: the ID token of every successful token response has
\* exp = iat + 3600, the expires_in of the response.
C25_IdTokenLifetime ==
    last # None /\ last.route = "token" /\ last.resp.status = 200 =>
        /\ last.resp.body.expires_in = 3600
        /\ last.resp.body.id_token.claims.exp =
              last.resp.body.id_token.claims.iat + last.resp.body.expires_in

\* A refresh answered with an ID token issued at the latest clock value.
C25_Witness ==
    /\ LastGrant("refresh_token")
    /\ last.resp.status = 200
    /\ last.resp.body.id_token.claims.iat = MaxNow
    /\ last.resp.body.id_token.claims.exp = MaxNow + 3600

\* The user of this record is in the directory and the POST /authorize
\* that issued this code presented the user's password.
Authenticated(record, code) ==
    /\ uuids[code].kind = "code"
    /\ record.username = uuids[code].username
    /\ record.username \in DOMAIN USERS
    /\ USERS[record.username] = uuids[code].password

\* C26: the username of every PendingAuthorization and of every
\* RefreshTokenRecord is a user of USERS whose password was presented
\* correctly in an earlier POST /authorize: the one that issued the code
\* the record belongs to or descends from.
C26_RecordsAuthenticated ==
    /\ \A c \in DOMAIN auth_codes : Authenticated(auth_codes[c], c)
    /\ \A r \in DOMAIN refresh_tokens :
          r \in RefreshTokens /\ Authenticated(refresh_tokens[r], Origin(r))

\* In an environment with its own directory, a refresh token that was
\* rotated holds the record of alice, who logged in with the password the
\* directory's last pair for her gives.
C26_Witness ==
    /\ "MOCK_OIDC_USERS" \in DOMAIN environ
    /\ \E r \in DOMAIN refresh_tokens :
          /\ uuids[r].from \in RefreshTokens
          /\ refresh_tokens[r].username = "alice"
          /\ uuids[Origin(r)].password = "s3cret:x"

\* C27: a successful authorization_code response for a code comes after
\* the successful POST /authorize that generated the code and put it in
\* its redirect, and a successful refresh_token response for a refresh
\* token comes after a successful token response that returned it.
C27_SuccessHasCause ==
    /\ LastGrant("authorization_code") /\ last.resp.status = 200 =>
          /\ IsUuid(uuids, last.form.code, "code")
          /\ uuids[last.form.code].delivered
          /\ last.form.code < last.resp.body.refresh_token
    /\ LastGrant("refresh_token") /\ last.resp.status = 200 =>
          /\ IsUuid(uuids, last.form.refresh_token, "refresh")
          /\ uuids[last.form.refresh_token].delivered
          /\ last.form.refresh_token < last.resp.body.refresh_token

\* A refresh succeeded with a refresh token that an earlier refresh had
\* returned, while codes and refresh tokens had been presented in each
\* other's place.
C27_Witness ==
    /\ LastGrant("refresh_token")
    /\ last.resp.status = 200
    /\ uuids[last.form.refresh_token].from \in RefreshTokens
    /\ \E c \in Codes : uuids[c].delivered

\* The client_id, username and scope the chain of this refresh token
\* started with.
ChainRecord(r) ==
    [client_id |-> uuids[Origin(r)].client_id,
     username |-> uuids[Origin(r)].username,
     scope |-> uuids[Origin(r)].scope]

\* C28: along a refresh chain every RefreshTokenRecord holds the client_id,
\* username and scope of the record it replaced, hence those the chain
\* started with, and every refresh response returns that scope.
C28_ChainKeepsRecord ==
    /\ \A r \in DOMAIN refresh_tokens : refresh_tokens[r] = ChainRecord(r)
    /\ LastGrant("refresh_token") /\ last.resp.status = 200 =>
          /\ last.resp.body.scope = ChainRecord(last.form.refresh_token).scope
          /\ uuids[last.resp.body.refresh_token].from = last.form.refresh_token
          /\ refresh_tokens[last.resp.body.refresh_token] =
                ChainRecord(last.form.refresh_token)

\* The second refresh of a chain that admin started for android with scope
\* "openid offline_access".
C28_Witness ==
    /\ LastGrant("refresh_token")
    /\ last.resp.status = 200
    /\ uuids[last.form.refresh_token].from \in RefreshTokens
    /\ last.resp.body.scope = "openid offline_access"
    /\ refresh_tokens[last.resp.body.refresh_token] =
          [client_id |-> "android", username |-> "admin", scope |-> "openid offline_access"]

\* The authorization_code exchanges answered 200 so far.
CodesExchanged == {c \in Codes : uuids[c].ok > 0}

C30_NoUndeliveredRecord ==
    handlers = EmptyBag =>
        \A r \in DOMAIN refresh_tokens : uuids[r].delivered

\* C31: the refresh_token of a successful token response is a key of the
\* Refresh-Token Store when the response is produced, and every refresh
\* token a response returned stays a key until a refresh_token grant that
\* presents it has succeeded, whatever other handlers do meanwhile.
C31_ReturnedTokenStaysValid ==
    /\ last # None /\ last.route = "token" /\ last.resp.status = 200 =>
          last.resp.body.refresh_token \in DOMAIN refresh_tokens
    /\ \A r \in RefreshTokens :
          uuids[r].delivered /\ uuids[r].ok = 0 => r \in DOMAIN refresh_tokens

\* A refresh that presented an older token has just failed, and the token
\* that replaced it, returned to a concurrent request, is still a key.
C31_Witness ==
    /\ LastGrant("refresh_token")
    /\ last.resp.status # 200
    /\ last.found
    /\ \E r \in DOMAIN refresh_tokens :
          /\ uuids[r].from = last.form.refresh_token
          /\ uuids[r].delivered
          /\ uuids[r].ok = 0

\* The code_challenge_method submitted with the code the latest exchange
\* presented.
LastChallengeMethod == uuids[last.form.code].code_challenge_method

\* C32: whatever code_challenge_method was submitted at /authorize, the
\* exchange of a code with a non-empty code_challenge succeeds exactly when
\* the S256 digest of the code_verifier equals the challenge; a
\* code_verifier that equals the challenge literally, its digest being
\* another string, is answered invalid_grant.
C32_AlwaysS256 ==
    /\ \A c \in DOMAIN auth_codes : "code_challenge_method" \notin DOMAIN auth_codes[c]
    /\ (/\ LastGrant("authorization_code")
        /\ last.found
        /\ LastChallenge # 0)
          => /\ (last.resp.status = 200) <=> (S256(last.form.code_verifier) = LastChallenge)
             /\ (/\ last.form.code_verifier = LastChallenge
                 /\ S256(last.form.code_verifier) # LastChallenge)
                   => /\ IsInvalidGrant(last.resp)
                      /\ last.resp.body.error_description = "PKCE mismatch"

\* A code authorized with code_challenge_method "plain" was presented with
\* its challenge as the verifier, and refused.
C32_Witness ==
    /\ LastGrant("authorization_code")
    /\ last.found
    /\ LastChallenge # 0
    /\ LastChallengeMethod = "plain"
    /\ last.form.code_verifier = LastChallenge
    /\ IsInvalidGrant(last.resp)

\* The step completes a POST /token.
TokenCompleted == last' # None /\ last'.route = "token"

\* The handler the step completes, where one handler runs at a time.
Completing == CHOOSE t \in InFlight : TRUE

\* The stores as the request of the completing handler found them, where
\* one handler runs at a time: what the handler took from _auth_codes is
\* put back, and what it added to _refresh_tokens is taken out.
AuthCodesFound ==
    IF handlers # EmptyBag /\ Completing.pc = "ac_issue"
    THEN DictSet(auth_codes, Completing.form.code, Completing.stored)
    ELSE auth_codes

RefreshTokensFound ==
    IF handlers # EmptyBag /\ Completing.pc = "rt_del"
    THEN DictRemove(refresh_tokens, Completing.new_refresh_token)
    ELSE refresh_tokens

\* The uuid4 the completing handler drew for its refresh token.
RefreshTokenDrawn ==
    IF handlers # EmptyBag /\ Completing.pc = "rt_del"
    THEN Completing.new_refresh_token
    ELSE Uuid4

\* The requests that differ from this one in client_id and redirect_uri
\* only (this one among them).
SameButUnread(form) ==
    {[form EXCEPT !.client_id = c, !.redirect_uri = u] :
        c \in TokenInputs.token_client_ids, u \in TokenInputs.token_redirect_uris}

\* C33: a POST /token that differs from the one just completed in
\* client_id and redirect_uri only, run on the stores that one found, gives
\* the same response and leaves the same stores, and the aud of the ID
\* token is the client_id of the authorization, not the one of the request.
C33_UnreadFieldsDoNotMatter ==
    [][TokenCompleted =>
          /\ \A other \in SameButUnread(last'.form) :
                LET now == IF last'.resp.status = 200
                           THEN last'.resp.body.id_token.claims.iat ELSE 0
                    run == TokenRun(other, AuthCodesFound, RefreshTokensFound,
                                    RefreshTokenDrawn, now)
                IN  /\ run.resp = last'.resp
                    /\ run.auth_codes = auth_codes'
                    /\ run.refresh_tokens = refresh_tokens'
          /\ last'.resp.status = 200 =>
                last'.resp.body.id_token.claims.aud =
                   uuids[Origin(IF last'.form.grant_type = "authorization_code"
                                THEN last'.form.code
                                ELSE last'.form.refresh_token)].client_id]_vars

\* A code authorized for "web" was exchanged by a request that named the
\* client "android" and another redirect_uri, and the ID token is for
\* "web".
C33_Witness ==
    /\ LastGrant("authorization_code")
    /\ last.resp.status = 200
    /\ last.form.client_id = "android"
    /\ last.form.redirect_uri = "http://evil/callback"
    /\ last.resp.body.id_token.claims.aud = "web"

\* A response without its fresh values: the refresh token and the access
\* token named after it.
Outcome(resp) ==
    IF resp.status = 200
    THEN [status |-> 200, token_type |-> resp.body.token_type,
          expires_in |-> resp.body.expires_in, id_token |-> resp.body.id_token,
          scope |-> resp.body.scope]
    ELSE [status |-> resp.status, error |-> resp.body]

\* Two Refresh-Token Stores hold the same records, whatever their keys.
SameRecords(a, b) ==
    \A rec \in {a[k] : k \in DOMAIN a} \cup {b[k] : k \in DOMAIN b} :
        Cardinality({k \in DOMAIN a : a[k] = rec})
            = Cardinality({k \in DOMAIN b : b[k] = rec})

\* An authorization_code request for this code with this verifier.
ExchangeForm(code, code_verifier) ==
    [grant_type |-> "authorization_code", code |-> code,
     code_verifier |-> code_verifier, refresh_token |-> 0,
     client_id |-> "", redirect_uri |-> ""]

\* From the stores as they are, the exchange of c1 with v1 and then the
\* exchange of c2 with v2.
OneThenOther(c1, v1, c2, v2) ==
    LET first == TokenRun(ExchangeForm(c1, v1), auth_codes, refresh_tokens, Uuid4, 0)
        second == TokenRun(ExchangeForm(c2, v2), first.auth_codes, first.refresh_tokens,
                           Uuid4 + 1, 0)
    IN  [first |-> first, second |-> second]

\* Exchanging c1 and c2 in either order gives each exchange the same
\* outcome, which is the outcome it has alone, and leaves the same stores.
Commute(c1, v1, c2, v2) ==
    LET a == OneThenOther(c1, v1, c2, v2)
        b == OneThenOther(c2, v2, c1, v1)
    IN  /\ Outcome(a.first.resp) = Outcome(b.second.resp)
        /\ Outcome(a.second.resp) = Outcome(b.first.resp)
        /\ a.second.auth_codes = b.second.auth_codes
        /\ SameRecords(a.second.refresh_tokens, b.second.refresh_tokens)

\* C34: exchanges of distinct pending codes are independent.  An exchange
\* that completes gives the response and leaves the stores of a run of its
\* handler alone, and its outcome is the one it has when its code is the
\* only record of either store; and for two pending codes, exchanging one
\* and then the other in either order gives each exchange the same outcome
\* and leaves the same records.
C34_DistinctCodesIndependent ==
    /\ [][(TokenCompleted /\ last'.form.grant_type = "authorization_code") =>
             LET form == last'.form
                 now == IF last'.resp.status = 200
                        THEN last'.resp.body.id_token.claims.iat ELSE 0
                 run == TokenRun(form, AuthCodesFound, RefreshTokensFound, Uuid4, now)
                 own == [c \in DOMAIN AuthCodesFound \cap {form.code} |-> AuthCodesFound[c]]
                 alone == TokenRun(form, own, EmptyDict, Uuid4, now)
             IN  /\ run.resp = last'.resp
                 /\ run.auth_codes = auth_codes'
                 /\ run.refresh_tokens = refresh_tokens'
                 /\ Outcome(alone.resp) = Outcome(last'.resp)]_vars
    /\ [](\A c1, c2 \in DOMAIN auth_codes :
            c1 # c2 =>
               \A v1, v2 \in ExchangeInputs.code_verifiers : Commute(c1, v1, c2, v2))

\* The second of two codes was exchanged first and the first has now been
\* exchanged too: one was authorized with a code_challenge and one
\* without, and both records are in the Refresh-Token Store.
C34_Witness ==
    /\ LastGrant("authorization_code")
    /\ last.resp.status = 200
    /\ Cardinality(Codes) = 2
    /\ \A c \in Codes : uuids[c].ok = 1 /\ last.form.code <= c
    /\ \E c1, c2 \in Codes : uuids[c1].code_challenge = 0 /\ uuids[c2].code_challenge # 0
    /\ Cardinality(DOMAIN refresh_tokens) = 2

\* The names of the query parameters of a URI.
QueryNames(query) == {query[i][1] : i \in 1..Len(query)}

\* C35: the redirect of a successful POST /authorize has exactly one code
\* parameter, the code just stored, also when redirect_uri came with a
\* code or a state parameter, and it has every other parameter of
\* redirect_uri with its values.
C35_RedirectKeepsQuery ==
    (last # None /\ last.route = "authorize" /\ last.resp.status = 302) =>
        LET sent == last.form.redirect_uri.query
            location == last.resp.headers.Location.query
        IN  /\ Len(uuids) \in DOMAIN auth_codes
            /\ QueryValues(location, "code") = <<ToString(Len(uuids))>>
            /\ \A name \in QueryNames(sent) \ {"code", "state"} :
                  QueryValues(location, name) = QueryValues(sent, name)

====
